---------------------------- MODULE Spec2Model ----------------------------
(***************************************************************************)
(* Model of grammar_spell_checker: the word tokenizer and change counter  *)
(* of app.py, the CLI/GUI pipeline of app.py and the Flask pipeline of    *)
(* web_app.py.  The Spelling Service (TextBlob) and the Grammar Service   *)
(* (LanguageTool) are external: every outcome they can produce is a       *)
(* nondeterministic choice.                                               *)
(***************************************************************************)
EXTENDS Integers, Sequences, FiniteSets, TLC

VARIABLES
    (* _count_word_changes, app.py:95-101 *)
    pc, original, new_text, a, b, diffs,
    (* module state: the result of "from textblob import TextBlob" *)
    TextBlob,
    (* the calls made to the external services, in order, with what each returned *)
    calls,
    (* web_app.py: the cached handle, the handles built so far, and the request
       being handled: its position, its text field, the locals of check_text,
       fix_text_web and check_grammar_detailed, and its response *)
    _tool_instance, constructed,
    wpc, raw, text, spelled, matches, response,
    (* web_app.py: the request threads inside get_language_tool: each one's
       position, the handle it has built and not yet stored, the handle its
       last call returned, and the calls it has made *)
    tpc, built, returned, ncalls,
    (* app.py: the parsed arguments, the position of main or of the GUI, the
       function that started the pipeline, its locals, what was printed as
       corrected text, the exit status, the exception that ended the run or
       the click, the paths read, and the GUI's dialog and widgets *)
    cpc, args, caller, ctext, cspelled, cmatches,
    printed, exit_status, exc, reads, dialog, output_box, stats_label

cntVars == <<pc, original, new_text, a, b, diffs>>
reqVars == <<wpc, raw, text, spelled, matches, response>>
toolVars == <<tpc, built, returned, ncalls>>
runVars == <<ctext, cspelled, cmatches>>
guiVars == <<dialog, output_box, stats_label>>
cliVars == <<cpc, args, caller, runVars, printed, exit_status, exc, reads, guiVars>>
vars == <<cntVars, TextBlob, calls, _tool_instance, constructed, reqVars, toolVars, cliVars>>

(***************************************************************************)
(* Bounds                                                                  *)
(***************************************************************************)
\* longest text handed to the tokenizer alone
MaxTokLen == 4
\* longest text of a pair handed to _count_word_changes
MaxPairLen == 5
\* most whitespace characters before, and after, the content of a request's text
MaxPad == 1
\* most matches one tool.check call returns
MaxIssues == 2

\* request threads of the Flask server inside get_language_tool at once
NThreads == 2
\* calls of get_language_tool one thread makes
MaxToolCalls == 2

\* web_app.py:109, the character cap of POST /check
MaxChars == 5000

(***************************************************************************)
(* Characters.  A text is a sequence of one-character strings.             *)
(***************************************************************************)
\* the characters the regular expression class [A-Za-z'] accepts
AsciiLower == {"a","b","c","d","e","f","g","h","i","j","k","l","m",
               "n","o","p","q","r","s","t","u","v","w","x","y","z"}
AsciiUpper == {"A","B","C","D","E","F","G","H","I","J","K","L","M",
               "N","O","P","Q","R","S","T","U","V","W","X","Y","Z"}
\* faulty variant: the apostrophe is left out of the class
WordClassNoApostrophe == AsciiLower \cup AsciiUpper
WordClass == AsciiLower \cup AsciiUpper \cup {"'"}

\* characters the inputs are drawn from; "e'" stands for the non-ASCII letter
\* e-acute, one character that is a letter but not an ASCII one
TokAlphabet == {"a", "Z", "'", "7", " ", ",", "e'"}
PairAlphabet == {"a", "A", " "}

\* every sequence of at most n elements of alpha
TextsOver(alpha, n) == UNION {[1..k -> alpha] : k \in 0..n}
TokTexts == TextsOver(TokAlphabet, MaxTokLen)
PairTexts == TextsOver(PairAlphabet, MaxPairLen)

Min(x, y) == IF x <= y THEN x ELSE y
Abs(x) == IF x < 0 THEN -x ELSE x

(***************************************************************************)
(* re.findall(r"[A-Za-z']+", text): scan left to right; at a character of  *)
(* the class the match is extended greedily, and the scan resumes after    *)
(* the match; any other character is skipped.                              *)
(***************************************************************************)
RECURSIVE MatchEnd(_, _)
\* the last position of the greedy match of [A-Za-z']+ that starts at i
MatchEnd(txt, i) ==
    IF i < Len(txt) /\ txt[i + 1] \in WordClass
    THEN MatchEnd(txt, i + 1)
    ELSE i

RECURSIVE FindAllFrom(_, _, _)
FindAllFrom(txt, i, acc) ==
    IF i > Len(txt) THEN acc
    ELSE IF txt[i] \in WordClass
         THEN LET e == MatchEnd(txt, i)
              IN FindAllFrom(txt, e + 1, Append(acc, SubSeq(txt, i, e)))
         ELSE FindAllFrom(txt, i + 1, acc)

findall(txt) == FindAllFrom(txt, 1, <<>>)

(***************************************************************************)
(* _count_word_changes, app.py:95-101                                      *)
(***************************************************************************)
\* faulty variant: abs() dropped, so removed tokens count negative
TailNoAbs(ta, tb) == Len(ta) - Len(tb)
TailDiff(ta, tb) == Abs(Len(ta) - Len(tb))

\* faulty variant: the tokens are compared without regard to case
TokensDifferNoCase(x, y) ==
    LET low(c) == IF c = "A" THEN "a" ELSE IF c = "Z" THEN "z" ELSE c
        lower(w) == [k \in 1..Len(w) |-> low(w[k])]
    IN lower(x) # lower(y)
TokensDiffer(x, y) == x # y

RECURSIVE SumDiffsBy(_, _, _, _)
\* sum(1 for i in range(n) if a[i] != b[i]), positions counted from 1 here
SumDiffsBy(ta, tb, i, n) ==
    IF i > n THEN 0
    ELSE (IF TokensDiffer(ta[i], tb[i]) THEN 1 ELSE 0) + SumDiffsBy(ta, tb, i + 1, n)

_count_word_changes(o, t) ==
    LET ta == findall(o)
        tb == findall(t)
        n == Min(Len(ta), Len(tb))
    IN SumDiffsBy(ta, tb, 1, n) + TailDiff(ta, tb)


(***************************************************************************)
(* The tokenizer alone, on every text of TokTexts.                         *)
(***************************************************************************)
CntIdle ==
    /\ pc = "off" /\ original = <<>> /\ new_text = <<>>
    /\ a = <<>> /\ b = <<>> /\ diffs = 0

NoneVal == "None"

\* web_app.py:32, "_tool_instance = None"; the handles are numbered from 1
NoInstance == 0

ReqIdle ==
    /\ wpc = "off" /\ raw = <<>> /\ text = <<>> /\ spelled = <<>>
    /\ matches = <<>> /\ response = <<>>

ToolIdle == tpc = <<>> /\ built = <<>> /\ returned = <<>> /\ ncalls = <<>>

\* an optional command-line value: not given, or given with a value
Absent == [given |-> FALSE, val |-> <<>>]
Given(v) == [given |-> TRUE, val |-> v]
AbsentPath == [given |-> FALSE, val |-> ""]

\* the label's text at app.py:193
NoStats == [spelling |-> 0, grammar |-> 0]

CliIdle ==
    /\ cpc = "off"
    /\ args = [text |-> Absent, file |-> AbsentPath, fix |-> Absent, gui |-> FALSE]
    /\ caller = "none"
    /\ ctext = <<>> /\ cspelled = <<>> /\ cmatches = <<>>
    /\ printed = <<>> /\ exit_status = -1 /\ exc = "none" /\ reads = <<>>
    /\ dialog = "none" /\ output_box = <<>> /\ stats_label = NoStats

WebIdle == _tool_instance = NoInstance /\ constructed = 0 /\ ReqIdle /\ ToolIdle

SvcIdle == TextBlob = NoneVal /\ calls = <<>>

InitTok ==
    /\ pc = "tok"
    /\ original \in TokTexts
    /\ new_text = <<>> /\ a = <<>> /\ b = <<>> /\ diffs = 0
    /\ SvcIdle /\ WebIdle /\ CliIdle

\* a = re.findall(r"[A-Za-z']+", original)
Tokenize ==
    /\ pc = "tok"
    /\ a' = findall(original)
    /\ pc' = "tok_done"
    /\ UNCHANGED <<original, new_text, b, diffs, TextBlob, calls, _tool_instance, constructed, reqVars, toolVars, cliVars>>

NextTok == Tokenize
SpecTok == InitTok /\ [][NextTok]_vars

(***************************************************************************)
(* _count_word_changes on every pair of texts of PairTexts.                *)
(***************************************************************************)
InitCount ==
    /\ pc = "start"
    /\ original \in PairTexts
    /\ new_text \in PairTexts
    /\ a = <<>> /\ b = <<>> /\ diffs = 0
    /\ SvcIdle /\ WebIdle /\ CliIdle

CountWordChanges ==
    /\ pc = "start"
    /\ a' = findall(original)
    /\ b' = findall(new_text)
    /\ diffs' = _count_word_changes(original, new_text)
    /\ pc' = "done"
    /\ UNCHANGED <<original, new_text, TextBlob, calls, _tool_instance, constructed, reqVars, toolVars, cliVars>>

NextCount == CountWordChanges
SpecCount == InitCount /\ [][NextCount]_vars

(***************************************************************************)
(* web_app.py.  A request text is kept as the whitespace before its        *)
(* content, the content (a name and a length) and the whitespace after it: *)
(* what str.strip(), len() and == need.  Whitespace-only texts have the    *)
(* empty content.                                                          *)
(***************************************************************************)
Body(i, n) == [id |-> i, len |-> n]
EmptyBody == Body("", 0)
Bodies ==
    {EmptyBody, Body("y", 1)}
        \cup {Body("x", n) : n \in {1, MaxChars - 1, MaxChars, MaxChars + 1}}

WebText(l, bd, t) == [lead |-> l, body |-> bd, trail |-> t]
EmptyText == WebText(0, EmptyBody, 0)
WebTexts ==
    {w \in {WebText(l, bd, t) : l \in 0..MaxPad, bd \in Bodies, t \in 0..MaxPad} :
        w.body = EmptyBody => w.trail = 0}

\* str.strip()
str_strip(t) == WebText(0, t.body, 0)
\* len()
str_len(t) == t.lead + t.body.len + t.trail

\* what TextBlob(text).correct() may return: the text itself or another text
SpellOutputs(t) == {t, WebText(0, Body("x", 1), 0), WebText(0, Body("y", 1), 0)}

\* the Match objects of language_tool_python; one has no context and no
\* replacement, one has more replacements than the three the response keeps
Matches ==
    { [message |-> "m1", context |-> "", replacements |-> <<>>,
       offset |-> 0, errorLength |-> 1],
      [message |-> "m2", context |-> "ctx", replacements |-> <<"r1", "r2", "r3", "r4">>,
       offset |-> 2, errorLength |-> 3] }
MatchLists == TextsOver(Matches, MaxIssues)

\* language_tool_python.utils.correct(text, matches): the text the library
\* returns, known only by what it was computed from
utils_correct(t, ms) == [applied_to |-> t, fixes |-> ms]

\* a call that returned ret, and a call that raised
Returned(op, arg, ret) == [op |-> op, arg |-> arg, raised |-> FALSE, ret |-> ret]
Raising(op, arg) == [op |-> op, arg |-> arg, raised |-> TRUE, ret |-> <<>>]
GrammarOps == {"LanguageTool", "check", "correct_matches"}

\* web_app.py:105, "if not text"
NoText(t) == str_len(t) = 0

\* faulty variant: one character more is let through
TooLongOffByOne(t) == str_len(t) > MaxChars + 1
\* web_app.py:109
TooLong(t) == str_len(t) > MaxChars

\* str(e) of the exception a Grammar Service call raises
GrammarFailure(op) ==
    CASE op = "LanguageTool" -> "LanguageTool failed to start"
      [] op = "check" -> "check failed"
      [] op = "correct_matches" -> "correct failed"

\* web_app.py:106 and 110
BadRequest(msg) == [status |-> 400, body |-> [error |-> <<msg>>]]

\* faulty variant: the failure is swallowed and the text at hand is answered with 200
ServerErrorSwallowed(e) == [status |-> 200, body |-> [corrected |-> spelled]]
\* web_app.py:117-119, "except Exception as e"
ServerError(e) == [status |-> 500, body |-> [error |-> <<"Server error: ", e>>]]

\* web_app.py:56-64
IssueOf(m) ==
    [message |-> m.message,
     context |-> IF m.context # "" THEN m.context ELSE "",
     replacements |-> IF m.replacements # <<>>
                      THEN SubSeq(m.replacements, 1, Min(3, Len(m.replacements)))
                      ELSE <<>>,
     offset |-> m.offset,
     length |-> m.errorLength]

\* web_app.py:66-70
check_grammar_detailed_result(ms, corrected) ==
    [corrected |-> corrected,
     issues_count |-> Len(ms),
     issues |-> [k \in 1..Len(ms) |-> IssueOf(ms[k])]]

\* web_app.py:79 and 84-90
fix_text_web_result(orig, sp, grammar_result) ==
    [original |-> orig,
     corrected |-> grammar_result.corrected,
     spelling_fixed |-> (orig # sp),
     grammar_issues |-> grammar_result.issues_count,
     issues |-> grammar_result.issues]

\* faulty variant: raises when TextBlob is missing, as app.py's correct_spelling does
WebSpellingOutcomesRaising(t) ==
    IF TextBlob = NoneVal
    THEN {[called |-> FALSE, raised |-> TRUE, ret |-> t]}
    ELSE {[called |-> TRUE, raised |-> TRUE, ret |-> t]}
             \cup {[called |-> TRUE, raised |-> FALSE, ret |-> o] : o \in SpellOutputs(t)}
\* web_app.py:42-46, correct_spelling: every way the call can end
WebSpellingOutcomes(t) ==
    IF TextBlob = NoneVal
    THEN {[called |-> FALSE, raised |-> FALSE, ret |-> t]}
    ELSE {[called |-> TRUE, raised |-> TRUE, ret |-> t]}
             \cup {[called |-> TRUE, raised |-> FALSE, ret |-> o] : o \in SpellOutputs(t)}

\* faulty variant: the grammar of the text as it came in is checked
GrammarInputOriginal(orig, sp) == orig
\* web_app.py:82, the text fix_text_web hands to check_grammar_detailed
GrammarInput(orig, sp) == sp

InitWeb ==
    /\ TextBlob \in {NoneVal, "textblob.TextBlob"}
    /\ calls = <<>>
    /\ _tool_instance = NoInstance /\ constructed = 0
    /\ wpc = "idle"
    /\ raw = EmptyText /\ text = EmptyText /\ spelled = EmptyText
    /\ matches = <<>> /\ response = <<>>
    /\ CntIdle /\ ToolIdle /\ CliIdle

\* web_app.py:100-110: a POST /check arrives; a body without a text field
\* reads as the empty text
web_check_text ==
    /\ wpc = "idle"
    /\ \E t \in WebTexts :
          /\ raw' = t
          /\ text' = str_strip(t)
    /\ calls' = <<>>
    /\ IF NoText(text')
       THEN response' = BadRequest("No text provided") /\ wpc' = "done"
       ELSE IF TooLong(text')
            THEN /\ response' = BadRequest("Text too long. Maximum 5000 characters.")
                 /\ wpc' = "done"
            ELSE response' = <<>> /\ wpc' = "spelling"
    /\ UNCHANGED <<cntVars, toolVars, cliVars, TextBlob, _tool_instance, constructed, spelled, matches>>

\* web_app.py:78, fix_text_web calling correct_spelling
web_correct_spelling ==
    /\ wpc = "spelling"
    /\ \E o \in WebSpellingOutcomes(text) :
          /\ calls' = IF ~o.called THEN calls
                      ELSE IF o.raised THEN Append(calls, Raising("correct", text))
                      ELSE Append(calls, Returned("correct", text, o.ret))
          /\ IF o.raised
             THEN /\ response' = ServerError("spelling failed")
                  /\ wpc' = "done"
                  /\ UNCHANGED spelled
             ELSE /\ spelled' = o.ret
                  /\ wpc' = "get_tool"
                  /\ UNCHANGED response
    /\ UNCHANGED <<cntVars, toolVars, cliVars, TextBlob, _tool_instance, constructed, raw, text, matches>>

\* web_app.py:34-39 called from line 52, one request at a time
web_get_language_tool ==
    /\ wpc = "get_tool"
    /\ IF _tool_instance = NoInstance
       THEN \/ /\ constructed' = constructed + 1
               /\ _tool_instance' = constructed + 1
               /\ calls' = Append(calls, Returned("LanguageTool", "en-US", constructed + 1))
               /\ wpc' = "check"
               /\ UNCHANGED response
            \/ /\ calls' = Append(calls, Raising("LanguageTool", "en-US"))
               /\ response' = ServerError(GrammarFailure("LanguageTool"))
               /\ wpc' = "done"
               /\ UNCHANGED <<_tool_instance, constructed>>
       ELSE /\ wpc' = "check"
            /\ UNCHANGED <<_tool_instance, constructed, calls, response>>
    /\ UNCHANGED <<cntVars, toolVars, cliVars, TextBlob, raw, text, spelled, matches>>

\* web_app.py:53, tool.check(text)
web_tool_check ==
    /\ wpc = "check"
    /\ LET arg == GrammarInput(text, spelled)
       IN \/ \E ms \in MatchLists :
                /\ matches' = ms
                /\ calls' = Append(calls, Returned("check", arg, ms))
                /\ wpc' = "correct"
                /\ UNCHANGED response
          \/ /\ calls' = Append(calls, Raising("check", arg))
             /\ response' = ServerError(GrammarFailure("check"))
             /\ wpc' = "done"
             /\ UNCHANGED matches
    /\ UNCHANGED <<cntVars, toolVars, cliVars, TextBlob, _tool_instance, constructed, raw, text, spelled>>

\* web_app.py:54-70, 84-90 and 115-116: utils.correct, the issue list, the
\* result record and its JSON response
web_correct_and_respond ==
    /\ wpc = "correct"
    /\ LET arg == GrammarInput(text, spelled)
       IN \/ /\ calls' = Append(calls, Returned("correct_matches", <<arg, matches>>,
                                                utils_correct(arg, matches)))
             /\ response' =
                  [status |-> 200,
                   body |-> fix_text_web_result(text, spelled,
                               check_grammar_detailed_result(matches,
                                   utils_correct(arg, matches)))]
          \/ /\ calls' = Append(calls, Raising("correct_matches", <<arg, matches>>))
             /\ response' = ServerError(GrammarFailure("correct_matches"))
    /\ wpc' = "done"
    /\ UNCHANGED <<cntVars, toolVars, cliVars, TextBlob, _tool_instance, constructed, raw, text, spelled, matches>>

\* the handler has returned; its locals are gone, the cached handle stays
web_request_end ==
    /\ wpc = "done"
    /\ wpc' = "idle"
    /\ raw' = EmptyText /\ text' = EmptyText /\ spelled' = EmptyText
    /\ matches' = <<>> /\ response' = <<>> /\ calls' = <<>>
    /\ UNCHANGED <<cntVars, toolVars, cliVars, TextBlob, _tool_instance, constructed>>

NextWeb ==
    \/ web_check_text
    \/ web_correct_spelling
    \/ web_get_language_tool
    \/ web_tool_check
    \/ web_correct_and_respond
    \/ web_request_end

SpecWeb == InitWeb /\ [][NextWeb]_vars

(***************************************************************************)
(* get_language_tool, web_app.py:34-39, with the request threads of the    *)
(* Flask server running it at once: "if _tool_instance is None" reads the  *)
(* global, the constructor runs, the result is stored, and the return      *)
(* statement reads the global again.  No lock is taken.                    *)
(***************************************************************************)
Threads == 1..NThreads

InitTool ==
    /\ _tool_instance = NoInstance /\ constructed = 0
    /\ tpc = [t \in Threads |-> "idle"]
    /\ built = [t \in Threads |-> NoInstance]
    /\ returned = [t \in Threads |-> NoInstance]
    /\ ncalls = [t \in Threads |-> 0]
    /\ TextBlob = NoneVal /\ calls = <<>>
    /\ CntIdle /\ ReqIdle /\ CliIdle

\* what get_language_tool leaves alone
ToolFrame == UNCHANGED <<cntVars, TextBlob, calls, reqVars, cliVars>>

\* a request thread enters get_language_tool
tool_call(t) ==
    /\ ToolFrame
    /\ tpc[t] = "idle"
    /\ ncalls[t] < MaxToolCalls
    /\ ncalls' = [ncalls EXCEPT ![t] = @ + 1]
    /\ tpc' = [tpc EXCEPT ![t] = "test"]
    /\ UNCHANGED <<_tool_instance, constructed, built, returned>>

\* web_app.py:37
tool_test(t) ==
    /\ ToolFrame
    /\ tpc[t] = "test"
    /\ tpc' = [tpc EXCEPT ![t] = IF _tool_instance = NoInstance
                                 THEN "construct" ELSE "return"]
    /\ UNCHANGED <<_tool_instance, constructed, built, returned, ncalls>>

\* web_app.py:38, the call language_tool_python.LanguageTool('en-US'): it
\* returns a new handle or raises
tool_construct(t) ==
    /\ ToolFrame
    /\ tpc[t] = "construct"
    /\ \/ /\ constructed' = constructed + 1
          /\ built' = [built EXCEPT ![t] = constructed + 1]
          /\ tpc' = [tpc EXCEPT ![t] = "assign"]
       \/ /\ tpc' = [tpc EXCEPT ![t] = "idle"]
          /\ UNCHANGED <<constructed, built>>
    /\ UNCHANGED <<_tool_instance, returned, ncalls>>

\* web_app.py:38, the store to the global
tool_assign(t) ==
    /\ ToolFrame
    /\ tpc[t] = "assign"
    /\ _tool_instance' = built[t]
    /\ tpc' = [tpc EXCEPT ![t] = "return"]
    /\ UNCHANGED <<constructed, built, returned, ncalls>>

\* web_app.py:39
tool_return(t) ==
    /\ ToolFrame
    /\ tpc[t] = "return"
    /\ returned' = [returned EXCEPT ![t] = _tool_instance]
    /\ tpc' = [tpc EXCEPT ![t] = "idle"]
    /\ UNCHANGED <<_tool_instance, constructed, built, ncalls>>

NextTool ==
    \/ \E t \in Threads : tool_call(t)
    \/ \E t \in Threads : tool_test(t)
    \/ \E t \in Threads : tool_construct(t)
    \/ \E t \in Threads : tool_assign(t)
    \/ \E t \in Threads : tool_return(t)

SpecTool == InitTool /\ [][NextTool]_vars

(***************************************************************************)
(* app.py: main, the command-line paths and the GUI's Check button.        *)
(***************************************************************************)
\* texts typed, pasted or read from a file
CliTexts == {<<>>, <<" ">>, <<"a">>, <<"a", " ", "A">>}
\* what TextBlob(text).correct() may return
CliSpellOutputs(t) == {t, <<"A">>}
\* the files that exist
ExistingFiles == {"sample.txt"}

ArgSets ==
    [text : {Absent, Given(<<>>), Given(<<"a">>)},
     file : {AbsentPath, [given |-> TRUE, val |-> ""],
             [given |-> TRUE, val |-> "sample.txt"],
             [given |-> TRUE, val |-> "missing.txt"]},
     fix : {Absent, Given(<<>>), Given(<<"a">>)},
     gui : BOOLEAN]

\* the truth value Python gives an optional string: None and "" are false
Truthy(o) == o.given /\ o.val # <<>>
TruthyPath(o) == o.given /\ o.val # ""

\* "not text.strip()"
Blank(t) == \A i \in 1..Len(t) : t[i] = " "

InitCli ==
    /\ TextBlob \in {NoneVal, "textblob.TextBlob"}
    /\ calls = <<>>
    /\ cpc = "main"
    /\ args = [text |-> Absent, file |-> AbsentPath, fix |-> Absent, gui |-> FALSE]
    /\ caller = "none"
    /\ ctext = <<>> /\ cspelled = <<>> /\ cmatches = <<>>
    /\ printed = <<>> /\ exit_status = -1 /\ exc = "none" /\ reads = <<>>
    /\ dialog = "none" /\ output_box = <<>> /\ stats_label = NoStats
    /\ CntIdle /\ WebIdle

\* what app.py leaves alone
CliFrame == UNCHANGED <<cntVars, TextBlob, _tool_instance, constructed, reqVars, toolVars>>

\* an exception leaves the pipeline: on_check catches it and shows it
\* (app.py:205-207); on the command line nothing catches it and the
\* interpreter exits with status 1
AppRaise(e) ==
    /\ exc' = e
    /\ IF caller = "on_check"
       THEN dialog' = "error" /\ cpc' = "gui" /\ UNCHANGED exit_status
       ELSE exit_status' = 1 /\ cpc' = "exited" /\ UNCHANGED dialog

\* app.py:234-267
main ==
    /\ CliFrame
    /\ cpc = "main"
    /\ \E ar \in ArgSets :
          /\ args' = ar
          /\ IF Truthy(ar.text) /\ TruthyPath(ar.file)
             THEN /\ exit_status' = 2 /\ cpc' = "exited"
                  /\ UNCHANGED <<caller, ctext>>
             ELSE IF Truthy(ar.fix)
             THEN /\ caller' = "fix" /\ ctext' = ar.fix.val /\ cpc' = "spelling"
                  /\ UNCHANGED exit_status
             ELSE IF Truthy(ar.text)
             THEN /\ caller' = "check_text" /\ ctext' = ar.text.val /\ cpc' = "tool"
                  /\ UNCHANGED exit_status
             ELSE IF TruthyPath(ar.file)
             THEN /\ cpc' = "read_file"
                  /\ UNCHANGED <<caller, ctext, exit_status>>
             ELSE IF ar.gui
             THEN /\ cpc' = "gui"
                  /\ UNCHANGED <<caller, ctext, exit_status>>
             ELSE /\ cpc' = "simple_cli"
                  /\ UNCHANGED <<caller, ctext, exit_status>>
    /\ UNCHANGED <<cspelled, cmatches, printed, exc, reads, guiVars, calls>>

\* app.py:136-139, called at line 259
read_text_from_file ==
    /\ CliFrame
    /\ cpc = "read_file"
    /\ reads' = Append(reads, args.file.val)
    /\ IF args.file.val \notin ExistingFiles
       THEN /\ exc' = "FileNotFoundError" /\ exit_status' = 1 /\ cpc' = "exited"
            /\ UNCHANGED <<caller, ctext>>
       ELSE /\ \E content \in CliTexts : ctext' = content
            /\ caller' = "check_text" /\ cpc' = "tool"
            /\ UNCHANGED <<exc, exit_status>>
    /\ UNCHANGED <<args, cspelled, cmatches, printed, guiVars, calls>>

\* app.py:161-171
simple_cli ==
    /\ CliFrame
    /\ cpc = "simple_cli"
    /\ \/ /\ exit_status' = 0 /\ cpc' = "exited"
          /\ UNCHANGED <<caller, ctext>>
       \/ \E user_text \in CliTexts :
             IF Blank(user_text)
             THEN /\ exit_status' = 0 /\ cpc' = "exited"
                  /\ UNCHANGED <<caller, ctext>>
             ELSE /\ caller' = "simple_cli" /\ ctext' = user_text /\ cpc' = "spelling"
                  /\ UNCHANGED exit_status
    /\ UNCHANGED <<args, cspelled, cmatches, printed, exc, reads, guiVars, calls>>

\* app.py:196-200, the Check button is pressed
on_check ==
    /\ CliFrame
    /\ cpc = "gui"
    /\ \E t \in CliTexts :
          IF Blank(t)
          THEN /\ dialog' = "info"
               /\ UNCHANGED <<cpc, caller, ctext, exc, calls>>
          ELSE /\ caller' = "on_check" /\ ctext' = t /\ cpc' = "spelling"
               /\ dialog' = "none" /\ exc' = "none" /\ calls' = <<>>
    /\ UNCHANGED <<args, cspelled, cmatches, printed, exit_status, reads,
                   output_box, stats_label>>

\* app.py:231, the window is closed and mainloop returns
gui_close ==
    /\ CliFrame
    /\ cpc = "gui"
    /\ exit_status' = 0 /\ cpc' = "exited"
    /\ UNCHANGED <<args, caller, runVars, printed, exc, reads, guiVars, calls>>

\* app.py:81-92, correct_spelling called at line 127 (fix_text) or 202 (on_check)
correct_spelling ==
    /\ CliFrame
    /\ cpc = "spelling"
    /\ IF TextBlob = NoneVal
       THEN AppRaise("ImportError") /\ UNCHANGED <<cspelled, calls>>
       ELSE \/ /\ calls' = Append(calls, Raising("correct", ctext))
               /\ AppRaise("TextBlobError")
               /\ UNCHANGED cspelled
            \/ \E o \in CliSpellOutputs(ctext) :
                  /\ cspelled' = o
                  /\ calls' = Append(calls, Returned("correct", ctext, o))
                  /\ cpc' = "tool"
                  /\ UNCHANGED <<exc, exit_status, dialog>>
    /\ UNCHANGED <<args, caller, ctext, cmatches, printed, reads, output_box, stats_label>>

\* the text whose grammar is checked: check_text checks its argument
\* (app.py:59), fix_text and on_check the spelled text (app.py:128, 204)
GrammarText == IF caller = "check_text" THEN ctext ELSE cspelled

\* app.py:58, 115: language_tool_python.LanguageTool(...), a new handle per call
language_tool ==
    /\ CliFrame
    /\ cpc = "tool"
    /\ \/ /\ calls' = Append(calls, Returned("LanguageTool", "en-US", 1))
          /\ cpc' = "check"
          /\ UNCHANGED <<exc, exit_status, dialog>>
       \/ /\ calls' = Append(calls, Raising("LanguageTool", "en-US"))
          /\ AppRaise("LanguageToolError")
    /\ UNCHANGED <<args, caller, runVars, printed, reads, output_box, stats_label>>

\* app.py:59-63, 116: tool.check(text); check_text returns when there is no match
tool_check ==
    /\ CliFrame
    /\ cpc = "check"
    /\ \/ \E ms \in MatchLists :
             /\ cmatches' = ms
             /\ calls' = Append(calls, Returned("check", GrammarText, ms))
             /\ IF caller = "check_text" /\ ms = <<>>
                THEN exit_status' = 0 /\ cpc' = "exited"
                ELSE cpc' = "correct" /\ UNCHANGED exit_status
             /\ UNCHANGED <<exc, dialog>>
       \/ /\ calls' = Append(calls, Raising("check", GrammarText))
          /\ AppRaise("LanguageToolError")
          /\ UNCHANGED cmatches
    /\ UNCHANGED <<args, caller, ctext, cspelled, printed, reads, output_box, stats_label>>

\* app.py:76-78 (check_text), 117-118 and 129-133, 251 or 171 (fix_text and
\* its callers), 117-118 and 203, 208-210 (on_check)
correct_and_show ==
    /\ CliFrame
    /\ cpc = "correct"
    /\ LET corrected == utils_correct(GrammarText, cmatches)
       IN \/ /\ calls' = Append(calls, Returned("correct_matches",
                                                <<GrammarText, cmatches>>, corrected))
             /\ IF caller = "on_check"
                THEN /\ output_box' = <<corrected>>
                     /\ stats_label' = [spelling |-> _count_word_changes(ctext, cspelled),
                                        grammar |-> Len(cmatches)]
                     /\ cpc' = "gui"
                     /\ UNCHANGED <<printed, exit_status>>
                ELSE /\ printed' = IF caller = "check_text"
                                   THEN Append(printed, corrected)
                                   ELSE printed \o <<corrected, corrected>>
                     /\ exit_status' = 0 /\ cpc' = "exited"
                     /\ UNCHANGED <<output_box, stats_label>>
             /\ UNCHANGED <<exc, dialog>>
          \/ /\ calls' = Append(calls, Raising("correct_matches", <<GrammarText, cmatches>>))
             /\ AppRaise("LanguageToolError")
             /\ UNCHANGED <<printed, output_box, stats_label>>
    /\ UNCHANGED <<args, caller, runVars, reads>>

NextCli ==
    \/ main
    \/ read_text_from_file
    \/ simple_cli
    \/ on_check
    \/ gui_close
    \/ correct_spelling
    \/ language_tool
    \/ tool_check
    \/ correct_and_show

SpecCli == InitCli /\ [][NextCli]_vars

(***************************************************************************)
(* What the claims call a token: stated from the text's characters, with   *)
(* no reference to the scan above.                                         *)
(***************************************************************************)
CharKind(c) ==
    CASE c \in {"a", "A", "Z"} -> "ascii_letter"
      [] c = "'" -> "apostrophe"
      [] c = "7" -> "digit"
      [] c = " " -> "whitespace"
      [] c = "," -> "punctuation"
      [] c = "e'" -> "other_letter"

IsTokenChar(c) == CharKind(c) \in {"ascii_letter", "apostrophe"}

\* the positions where a maximal run of token characters starts
RunStarts(t) ==
    {i \in 1..Len(t) : IsTokenChar(t[i]) /\ (i = 1 \/ ~IsTokenChar(t[i - 1]))}

\* the position where the run starting at i ends
RunEnd(t, i) ==
    CHOOSE j \in i..Len(t) :
        /\ \A k \in i..j : IsTokenChar(t[k])
        /\ (j = Len(t) \/ ~IsTokenChar(t[j + 1]))

\* the elements of a finite set of integers in increasing order
Ascending(S) ==
    CHOOSE f \in [1..Cardinality(S) -> S] :
        \A i, j \in 1..Cardinality(S) : i < j => f[i] < f[j]

MaximalRuns(t) ==
    LET st == Ascending(RunStarts(t))
    IN [k \in 1..Len(st) |-> SubSeq(t, st[k], RunEnd(t, st[k]))]

\* C3: the token sequence of a text is exactly the left-to-right list of its
\* maximal runs of ASCII letters and apostrophes; every token is non-empty and
\* holds only such characters, every other character is in no token, and the
\* empty text gives the empty sequence.
C3_TokensAreMaximalRuns ==
    pc = "tok_done" =>
        /\ a = MaximalRuns(original)
        /\ \A k \in 1..Len(a) :
              /\ Len(a[k]) > 0
              /\ \A i \in 1..Len(a[k]) :
                    CharKind(a[k][i]) \in {"ascii_letter", "apostrophe"}
        /\ (original = <<>> => a = <<>>)

C3_Witness ==
    /\ pc = "tok_done"
    /\ original = <<"a", "'", "7", "Z">>
    /\ a = << <<"a", "'">>, <<"Z">> >>

\* C1: _count_word_changes returns the number of positions below
\* min(len(a), len(b)) where the tokens differ (case-sensitively) plus
\* abs(len(a) - len(b)), a and b being the token sequences of the two texts;
\* the result is never negative.
C1_CountIsPositionalDiff ==
    pc = "done" =>
        LET ta == MaximalRuns(original)
            tb == MaximalRuns(new_text)
            n == IF Len(ta) < Len(tb) THEN Len(ta) ELSE Len(tb)
            gap == IF Len(ta) < Len(tb) THEN Len(tb) - Len(ta) ELSE Len(ta) - Len(tb)
        IN /\ diffs = Cardinality({i \in 1..n : ta[i] # tb[i]}) + gap
           /\ diffs >= 0

C1_Witness ==
    /\ pc = "done"
    /\ original = <<"a", " ", "A">>
    /\ new_text = <<"A">>
    /\ diffs = 2

\* C2 as claimed: some token sequences a and b of different lengths have
\* Change Counter(a, b) # Change Counter(b, a).
C2_SomePairIsAsymmetric ==
    pc = "done" =>
        \E x, y \in PairTexts :
            /\ Len(findall(x)) # Len(findall(y))
            /\ _count_word_changes(x, y) # _count_word_changes(y, x)

\* C2 as amended: the Change Counter is symmetric; for every pair of texts,
\* of equal or different token counts, counting from the first to the second
\* gives the same number as counting from the second to the first.
C2_CountIsSymmetric ==
    pc = "done" => diffs = _count_word_changes(new_text, original)

C2_Witness ==
    /\ pc = "done"
    /\ Len(a) = 2 /\ Len(b) = 1
    /\ a[1] = b[1]
    /\ diffs = 1

(***************************************************************************)
(* POST /check                                                             *)
(***************************************************************************)
CallsOf(op) == {i \in DOMAIN calls : calls[i].op = op}
InRequest == wpc \in {"spelling", "get_tool", "check", "correct", "done"}
\* fix_text_web has been called for the request
InPipeline ==
    \/ wpc \in {"spelling", "get_tool", "check", "correct"}
    \/ wpc = "done" /\ response.status # 400
Rejected ==
    /\ wpc = "done"
    /\ response.status = 400
    /\ "error" \in DOMAIN response.body
    /\ calls = <<>>

\* C4 as claimed: a request whose text field is empty or longer than 5000
\* characters is answered 400 with an 'error' field, and neither service is
\* invoked for it.
C4_EmptyOrOversizedFieldRejected ==
    (InRequest /\ (raw.lead + raw.body.len + raw.trail = 0
                      \/ raw.lead + raw.body.len + raw.trail > 5000))
        => Rejected

\* C4 as amended: a request whose text field, once its leading and trailing
\* whitespace is stripped, is empty or longer than 5000 characters is answered
\* 400 with an 'error' field, and neither service is invoked for it.
C4_EmptyOrOversizedStrippedRejected ==
    (InRequest /\ (raw.body.len = 0 \/ raw.body.len > 5000)) => Rejected

C4_Witness ==
    /\ wpc = "done"
    /\ raw.lead = 1 /\ raw.body.len = 5001
    /\ response = [status |-> 400,
                   body |-> [error |-> <<"Text too long. Maximum 5000 characters.">>]]

\* C5: with TextBlob missing, fix_text_web never fails in its spelling stage
\* (it ends in an error only when a Grammar Service call raised), the Spelling
\* Service is not called, every Grammar Service check is given exactly the
\* input text, and the record returned has spelling_fixed false.
C5_WebSpellingSkipped ==
    (TextBlob = NoneVal /\ InPipeline) =>
        /\ CallsOf("correct") = {}
        /\ (wpc # "spelling") => (spelled = text /\ (wpc # "done" => response = <<>>))
        /\ \A i \in CallsOf("check") : calls[i].arg = text
        /\ (wpc = "done" /\ response.status = 200) =>
              /\ response.body.spelling_fixed = FALSE
              /\ CallsOf("check") # {}
        /\ (wpc = "done" /\ response.status = 500) =>
              /\ calls # <<>>
              /\ calls[Len(calls)].raised
              /\ calls[Len(calls)].op \in GrammarOps

C5_Witness ==
    /\ TextBlob = NoneVal
    /\ wpc = "done"
    /\ response.status = 200
    /\ text.body = Body("y", 1)
    /\ \E i \in CallsOf("check") : calls[i].arg = text /\ Len(calls[i].ret) = 1

\* C7: when a Grammar Service call (building the handle, check or correct)
\* raises during an accepted request, the request ends at once with status 500
\* and a body that carries 'error', with the exception's message, and no
\* 'corrected'; no further Grammar Service call is made for that request.
C7_GrammarFailureIs500 ==
    \A i \in DOMAIN calls :
        (calls[i].op \in GrammarOps /\ calls[i].raised) =>
            /\ i = Len(calls)
            /\ wpc = "done"
            /\ response.status = 500
            /\ DOMAIN response.body = {"error"}
            /\ response.body.error = <<"Server error: ", GrammarFailure(calls[i].op)>>

C7_Witness ==
    /\ wpc = "done"
    /\ response.status = 500
    /\ Len(calls) = 3
    /\ calls[3].op = "check" /\ calls[3].raised

\* C8: a record returned by fix_text_web for the text t comes from one
\* Spelling Service call on t returning s (s = t and no call when TextBlob is
\* missing), then one check of s and one correct of s with the matches of that
\* check; it holds original = t, corrected = what correct returned,
\* spelling_fixed = (s # t), grammar_issues = the number of matches, and issues
\* with one entry per match in the same order.
C8_WebResultRecord ==
    (wpc = "done" /\ response.status = 200) =>
        LET sp == CallsOf("correct")
            ck == CallsOf("check")
            ap == CallsOf("correct_matches")
            s == IF sp = {} THEN text ELSE calls[CHOOSE i \in sp : TRUE].ret
            c == CHOOSE i \in ck : TRUE
            k == CHOOSE i \in ap : TRUE
            ms == calls[c].ret
            r == response.body
        IN /\ Cardinality(sp) = (IF TextBlob = NoneVal THEN 0 ELSE 1)
           /\ \A i \in sp : i = 1 /\ calls[i].arg = text /\ ~calls[i].raised
           /\ Cardinality(ck) = 1 /\ Cardinality(ap) = 1
           /\ c < k /\ \A i \in sp : i < c
           /\ calls[c].arg = s
           /\ calls[k].arg = <<s, ms>>
           /\ r.original = text
           /\ r.corrected = calls[k].ret
           /\ r.corrected = [applied_to |-> s, fixes |-> ms]
           /\ r.spelling_fixed = (s # text)
           /\ r.grammar_issues = Len(ms)
           /\ Len(r.issues) = r.grammar_issues
           /\ \A n \in 1..Len(ms) :
                 /\ r.issues[n].message = ms[n].message
                 /\ r.issues[n].offset = ms[n].offset
                 /\ r.issues[n].length = ms[n].errorLength
                 /\ Len(r.issues[n].replacements) <= 3

C8_Witness ==
    /\ wpc = "done"
    /\ response.status = 200
    /\ response.body.spelling_fixed
    /\ response.body.grammar_issues = 2
    /\ response.body.issues[1].message = "m2"
    /\ response.body.issues[2].message = "m1"
    /\ Len(response.body.issues[1].replacements) = 3

\* C10: over any interleaving of concurrent calls of get_language_tool the
\* LanguageTool constructor runs at most once, and every call returns that
\* same instance.
C10_ToolBuiltOnce ==
    /\ constructed <= 1
    /\ \A t, u \in Threads :
          (returned[t] # NoInstance /\ returned[u] # NoInstance)
              => returned[t] = returned[u]

(***************************************************************************)
(* app.py                                                                  *)
(***************************************************************************)
\* C9: started with both --text and --file given, whatever their values, main
\* exits with status 2 before any file is read and before either service is
\* invoked.
C9_BothOptionsExit2 ==
    (cpc # "main" /\ args.text.given /\ args.file.given) =>
        /\ cpc = "exited"
        /\ exit_status = 2
        /\ reads = <<>>
        /\ calls = <<>>

\* C6: with TextBlob missing, fix_text and on_check skip the spelling stage
\* without raising or showing an error: the input goes unchanged to the
\* Grammar Service and, unless that service fails, a corrected text is
\* produced.
C6_AppSpellingSkipped ==
    (TextBlob = NoneVal /\ caller \in {"fix", "simple_cli", "on_check"}
        /\ cpc # "spelling") =>
        /\ exc # "ImportError"
        /\ cspelled = ctext
        /\ (cpc \in {"exited", "gui"} /\ exc = "none") =>
              /\ \E i \in DOMAIN calls : calls[i].op = "check" /\ calls[i].arg = ctext
              /\ (printed # <<>> \/ output_box # <<>>)

===========================================================================
